---- MODULE Spec2Model ----
(***************************************************************************)
(* The query-orchestration pipeline of the PodoSkin assistant:             *)
(* route_by_origin -> classify_intent -> check_permissions ->              *)
(* combine_context -> generate_sql -> execute_sql -> generate_response.    *)
(* One request is one run; `state` is the AgentState dictionary threaded   *)
(* through the stages and `pc` is the node the graph will run next.        *)
(* External calls (classification / synthesis / summarisation service,     *)
(* the relational store, the pg_trgm search) are nondeterministic choices. *)
(* Fields of `state` whose name starts with io_ are observation counters   *)
(* of those calls; exc records an exception that escaped a stage.          *)
(***************************************************************************)
EXTENDS Integers, Sequences, FiniteSets, TLC

VARIABLES pc, state

vars == <<pc, state>>

-----------------------------------------------------------------------------
(* Bounds of the model *)

MaxRetries == 2

MaxRows == 6

MaxPatients == 5

MaxLimit == 4

MaxRegistrations == 3

MaxCitas == 2

MaxHora == 2

-----------------------------------------------------------------------------
(* Vocabulary *)

IntentType == {"query_read", "query_aggregate", "mutation_create", "mutation_update", "mutation_delete", "clarification", "out_of_scope", "greeting"}

MutationIntents == {"mutation_create", "mutation_update", "mutation_delete"}

ErrorType == {"NONE", "PERMISSION_DENIED", "SQL_ERROR", "NO_RESULTS", "INTERNAL"}

Roles == {"Admin", "Podologo", "Recepcion", "Invitado"}

\* A message: a fixed text (id) with the values formatted into it: args are
\* strings (a role, table names, an error text), vals are numbers (a count, or
\* the patients whose full names are listed).
Msg(id, args, vals) == [id |-> id, args |-> args, vals |-> vals]

NoMsg == Msg("UNSET", << >>, << >>)

EmptyText == Msg("", << >>, << >>)

Text(id) == Msg(id, << >>, << >>)

-----------------------------------------------------------------------------
(* Static tables *)

READ_PERMISSIONS == [Admin |-> {"auth.clinicas", "auth.sys_usuarios", "auth.audit_logs", "clinic.pacientes", "clinic.tratamientos", "clinic.evoluciones", "clinic.evidencias", "ops.podologos", "ops.citas", "ops.catalogo_servicios", "ops.solicitudes_prospectos", "finance.pagos", "finance.transacciones", "finance.gastos"},
                     Podologo |-> {"clinic.pacientes", "clinic.tratamientos", "clinic.evoluciones", "clinic.evidencias", "ops.podologos", "ops.citas", "ops.catalogo_servicios", "ops.solicitudes_prospectos", "auth.audit_logs"},
                     Recepcion |-> {"clinic.pacientes", "ops.citas", "ops.catalogo_servicios", "ops.solicitudes_prospectos", "ops.podologos"}]

WRITE_PERMISSIONS == [Admin |-> {"auth.clinicas", "auth.sys_usuarios", "clinic.pacientes", "clinic.tratamientos", "clinic.evoluciones", "clinic.evidencias", "ops.podologos", "ops.citas", "ops.catalogo_servicios", "ops.solicitudes_prospectos", "finance.pagos", "finance.transacciones", "finance.gastos"},
                      Podologo |-> {"clinic.pacientes", "clinic.tratamientos", "clinic.evoluciones", "clinic.evidencias", "ops.citas"},
                      Recepcion |-> {"ops.citas", "ops.solicitudes_prospectos", "clinic.pacientes"}]

RESTRICTED_PATIENT_FIELDS == [Recepcion |-> <<"antecedentes_patologicos", "antecedentes_familiares", "alergias", "medicamentos", "observaciones_medicas">>]

SENSITIVE_OPERATIONS == {"mutation_delete"}

\* The domain lexicon, one noun for each table it maps to (the other nouns
\* of the source are synonyms of these).
ENTITY_TO_TABLE == [paciente |-> "clinic.pacientes", tratamiento |-> "clinic.tratamientos", evoluciones |-> "clinic.evoluciones_clinicas", cita |-> "ops.citas", podologo |-> "ops.podologos", servicio |-> "ops.catalogo_servicios", prospecto |-> "ops.solicitudes_prospectos", pago |-> "finance.pagos", transacciones |-> "finance.transacciones", gasto |-> "finance.gastos"]

AllTables == READ_PERMISSIONS.Admin \cup WRITE_PERMISSIONS.Admin \cup {ENTITY_TO_TABLE[e] : e \in DOMAIN ENTITY_TO_TABLE}

-----------------------------------------------------------------------------
(* Requests *)

\* A user query, by the features _quick_classify reads from its lowered text:
\* greeting = starts with a greeting word, short = fewer than 30 characters,
\* out_of_scope / aggregate / read = contains a word of that list.
Query(text, greeting, short, oos, aggregate, read) == [text |-> text, greeting |-> greeting, short |-> short, out_of_scope |-> oos, aggregate |-> aggregate, read |-> read]

Queries == {Query("Hola", TRUE, TRUE, FALSE, FALSE, FALSE),
            Query("Hola, cuentame un chiste", TRUE, TRUE, TRUE, FALSE, FALSE),
            Query("Hola, dame el total de citas de esta semana", TRUE, FALSE, FALSE, TRUE, TRUE),
            Query("Cuantos chistes hay", FALSE, TRUE, TRUE, TRUE, FALSE),
            Query("Cuantos pacientes hay", FALSE, TRUE, FALSE, TRUE, FALSE),
            Query("Muestrame las citas de hoy", FALSE, TRUE, FALSE, FALSE, TRUE),
            Query("Busca a Juan Perez", FALSE, TRUE, FALSE, FALSE, FALSE)}

\* entities_extracted: None, or a dict.  vals is the ordered list of the
\* user-value items (key, value); ents is _entities ("unset", "none" when the
\* service sent null, or "list" with the list in entsList); tables is _tables.
Entities(isNone, vals, ents, entsList, tables, restricted, confirm) == [isNone |-> isNone, vals |-> vals, ents |-> ents, entsList |-> entsList, tables |-> tables, restricted |-> restricted, confirm |-> confirm]

EmptyDict == Entities(FALSE, << >>, "unset", << >>, << >>, << >>, FALSE)

NoneEntities == Entities(TRUE, << >>, "unset", << >>, << >>, << >>, FALSE)

\* sql_query: unset, or an SQLQuery; query is the statement as a token list.
NoSqlQuery == [set |-> FALSE, query |-> << >>, target_db |-> "UNSET", is_mutation |-> FALSE, tables_involved |-> {}]

\* execution_result: unset, or the ExecutionResult of execute_safe_query.
NoResult == [set |-> FALSE, success |-> FALSE, row_count |-> 0, columns |-> << >>, value |-> 0, error_message |-> ""]

NoData == [set |-> FALSE, row_count |-> 0]

create_initial_state(query, role, origin, max_retries) ==
    [user_query |-> query, user_role |-> role, origin |-> origin,
     intent |-> "UNSET", intent_confidence |-> -1, entities_extracted |-> EmptyDict,
     sql_query |-> NoSqlQuery, target_database |-> "UNSET", execution_result |-> NoResult,
     retry_count |-> 0, max_retries |-> max_retries,
     error_type |-> "NONE", error_internal_message |-> NoMsg, error_user_message |-> NoMsg,
     error_suggestions |-> FALSE, fuzzy_suggestions |-> << >>,
     response_text |-> NoMsg, response_data |-> NoData, node_path |-> << >>,
     exc |-> "", cls |-> "none",
     io_classify |-> 0, io_synth |-> 0, io_store |-> 0, io_fuzzy |-> 0, io_compose |-> 0]

\* node_path = state.get("node_path", []) + [name]
Visit(s, name) == [s EXCEPT !.node_path = Append(@, name)]

Raise(s, what) == [s EXCEPT !.exc = what]

-----------------------------------------------------------------------------
(* Root graph *)

route_by_origin_node(s) == Visit(s, "route_by_origin_" \o s.origin)

route_by_origin(s) ==
    CASE s.origin = "webapp" -> "webapp_flow"
      [] s.origin = "whatsapp_paciente" -> "whatsapp_paciente_flow"
      [] s.origin = "whatsapp_user" -> "whatsapp_user_flow"
      [] OTHER -> "webapp_flow"

-----------------------------------------------------------------------------
(* Output of the text-generation service *)

\* A reply text, by what the parsers look at: body says whether the text holds
\* one well-formed JSON value; pre / post say whether other text (without
\* braces) comes before / after it; braceNoise says whether an earlier line
\* holds a brace-delimited fragment that is not JSON.  obj is the JSON value.
ReplyText(pre, post, braceNoise, body, obj) == [pre |-> pre, post |-> post, braceNoise |-> braceNoise, body |-> body, obj |-> obj]

\* json.loads(response_text)
JsonLoads(text) == text.body = "json" /\ ~text.pre /\ ~text.post /\ ~text.braceNoise

\* json.loads of the text from the first "{" to the last "}"
JsonBraceSpan(text) == text.body = "json" /\ ~text.braceNoise

\* json.loads of the text from a line that starts with "{" to the end
JsonLineScan(text) == text.body = "json" /\ ~text.post

ClassificationObj(dict, intent, confidence, entities, entsList, values) == [dict |-> dict, intent |-> intent, confidence |-> confidence, entities |-> entities, entsList |-> entsList, values |-> values]

DefaultClassification == ClassificationObj(TRUE, "clarification", 50, "list", << >>, "empty")

\* The line scan dropped from the chain.
_parse_classification_response_NoLineScan(text) ==
    IF JsonLoads(text) THEN text.obj
    ELSE IF JsonBraceSpan(text) THEN text.obj
    ELSE DefaultClassification

_parse_classification_response(text) ==
    IF JsonLoads(text) THEN text.obj
    ELSE IF JsonBraceSpan(text) THEN text.obj
    ELSE IF JsonLineScan(text) THEN text.obj
    ELSE DefaultClassification

\* The lists of domain nouns ("entities") a classification reply may carry;
\* "clima" is a noun outside the lexicon.
EntityLists == {<< >>, <<"paciente">>, <<"pago">>, <<"paciente", "pago">>, <<"pago", "paciente">>, <<"evoluciones">>, <<"clima", "cita">>, <<"podologo">>, <<"pago", "evoluciones">>}

\* extracted_values of a classification reply: missing, null, or a dict.
ValueOptions == {"missing", "null", "empty", "nombre", "fecha_nombre"}

ExtractedValues(opt) ==
    CASE opt = "nombre" -> << <<"nombre_paciente", "Juan Perez">> >>
      [] opt = "fecha_nombre" -> << <<"fecha", "hoy">>, <<"nombre_paciente", "Jo">> >>
      [] OTHER -> << >>

\* len(value) of the extracted values above
StrLen(v) == CASE v = "Juan Perez" -> 10 [] v = "hoy" -> 3 [] v = "Jo" -> 2 [] OTHER -> 0

TextShapes == {ReplyText(pre, post, bn, "json", 0) : pre \in BOOLEAN, post \in BOOLEAN, bn \in BOOLEAN} \cup {ReplyText(FALSE, FALSE, bn, "none", 0) : bn \in BOOLEAN}

ClassificationObjs ==
    {ClassificationObj(TRUE, i, 90, "list", el, "nombre") : i \in IntentType, el \in EntityLists}
    \cup {ClassificationObj(TRUE, i, 90, "list", <<"paciente">>, v) : i \in IntentType, v \in ValueOptions}
    \cup {ClassificationObj(TRUE, i, 90, e, << >>, "nombre") : i \in {"query_read", "mutation_delete"}, e \in {"null", "missing"}}
    \cup {ClassificationObj(TRUE, i, c, "list", <<"paciente">>, "nombre") : i \in {"query_read", "MISSING", "saludo"}, c \in {90, -1}}
    \cup {ClassificationObj(FALSE, "MISSING", -1, "missing", << >>, "missing")}

\* What the classification call can do: raise (timeout, API error) or return
\* a text (body "none": empty or without JSON).
ClassifyOutcomes ==
    {[kind |-> "raise", text |-> ReplyText(FALSE, FALSE, FALSE, "none", DefaultClassification)]}
    \cup {[kind |-> "text", text |-> [sh EXCEPT !.obj = IF sh.body = "json" THEN o ELSE DefaultClassification]] : sh \in TextShapes, o \in ClassificationObjs}

-----------------------------------------------------------------------------
(* classify_intent *)

NoQuick == [hit |-> FALSE, intent |-> "UNSET", confidence |-> -1]

Quick(intent, confidence) == [hit |-> TRUE, intent |-> intent, confidence |-> confidence]

\* The aggregate rule moved before the out-of-scope rule.
_quick_classify_AggregateFirst(query) ==
    IF query.greeting /\ query.short THEN Quick("greeting", 95)
    ELSE IF query.aggregate THEN Quick("query_aggregate", 85)
    ELSE IF query.out_of_scope THEN Quick("out_of_scope", 90)
    ELSE IF query.read THEN Quick("query_read", 80)
    ELSE NoQuick

_quick_classify(query) ==
    IF query.greeting /\ query.short THEN Quick("greeting", 95)
    ELSE IF query.out_of_scope THEN Quick("out_of_scope", 90)
    ELSE IF query.aggregate THEN Quick("query_aggregate", 85)
    ELSE IF query.read THEN Quick("query_read", 80)
    ELSE NoQuick

InLexicon(e) == e \in DOMAIN ENTITY_TO_TABLE

MapTables(ents) == [i \in 1..Len(SelectSeq(ents, InLexicon)) |-> ENTITY_TO_TABLE[SelectSeq(ents, InLexicon)[i]]]

\* The except branch of classify_intent (lines 175-183)
ClassifyFallback(s, why) == [s EXCEPT !.intent = "clarification", !.intent_confidence = 30, !.error_type = "INTERNAL", !.error_internal_message = Msg("EXC", <<why>>, << >>), !.cls = why]

\* The try block of classify_intent (lines 120-173)
ClassifyWithService(s, out) ==
    LET result == _parse_classification_response(out.text)
        s2 == [s EXCEPT !.intent = result.intent]
        s3 == [s2 EXCEPT !.intent_confidence = result.confidence,
                         !.entities_extracted = IF result.values = "null" THEN NoneEntities
                                                ELSE [EmptyDict EXCEPT !.vals = ExtractedValues(result.values)]]
        s4 == [s3 EXCEPT !.entities_extracted.ents = IF result.entities = "null" THEN "none" ELSE "list",
                         !.entities_extracted.entsList = result.entsList]
        s5 == [s4 EXCEPT !.entities_extracted.tables = MapTables(result.entsList),
                         !.cls = IF JsonLoads(out.text) \/ JsonBraceSpan(out.text) \/ JsonLineScan(out.text) THEN "ok" ELSE "default"]
    IN  IF out.kind = "raise" THEN ClassifyFallback(s, "service_error")
        ELSE IF ~result.dict THEN ClassifyFallback(s, "not_a_dict")
        ELSE IF result.intent = "MISSING" THEN ClassifyFallback(s, "missing_intent")
        ELSE IF result.intent \notin IntentType THEN ClassifyFallback(s, "unknown_intent")
        ELSE IF result.confidence = -1 THEN ClassifyFallback(s2, "missing_confidence")
        ELSE IF result.values = "null" THEN ClassifyFallback(s3, "null_values")
        ELSE IF result.entities = "null" THEN ClassifyFallback(s4, "null_entities")
        ELSE s5

classify_intent(s, out) ==
    LET quick == _quick_classify(s.user_query)
    IN  IF quick.hit
        THEN [s EXCEPT !.intent = quick.intent, !.intent_confidence = quick.confidence, !.entities_extracted = EmptyDict, !.cls = "fast"]
        ELSE Visit(ClassifyWithService([s EXCEPT !.io_classify = @ + 1], out), "classify_intent")

-----------------------------------------------------------------------------
(* check_permissions *)

\* The role check dropped: every role passes on to the table check.
RoleIsValid_AnyRole(role) == TRUE

\* user_role not in READ_PERMISSIONS, negated (line 113)
RoleIsValid(role) == role \in DOMAIN READ_PERMISSIONS

\* The write set dropped: every intent is checked against the read set.
AllowedTables_ReadSetOnly(role, is_write) ==
    IF role \in DOMAIN READ_PERMISSIONS THEN READ_PERMISSIONS[role] ELSE {}

\* permissions_set.get(user_role, set()) (lines 129-130)
AllowedTables(role, is_write) ==
    LET permissions_set == IF is_write THEN WRITE_PERMISSIONS ELSE READ_PERMISSIONS
    IN  IF role \in DOMAIN permissions_set THEN permissions_set[role] ELSE {}

\* The tables of the request outside the allowed set, in request order (lines 132-135)
DeniedTables(tables, allowed) == LET Denied(t) == t \notin allowed IN SelectSeq(tables, Denied)

InSeq(x, seq) == \E i \in 1..Len(seq) : seq[i] = x

check_permissions(s) ==
    LET entities == s.entities_extracted
        tables == entities.tables
        is_write_operation == s.intent \in MutationIntents
        denied_tables == DeniedTables(tables, AllowedTables(s.user_role, is_write_operation))
        restricted == IF s.user_role = "Recepcion" /\ InSeq("clinic.pacientes", tables)
                      THEN [s EXCEPT !.entities_extracted.restricted = RESTRICTED_PATIENT_FIELDS[s.user_role]]
                      ELSE s
        sensitive == IF s.intent \in SENSITIVE_OPERATIONS
                     THEN [restricted EXCEPT !.entities_extracted.confirm = TRUE]
                     ELSE restricted
    IN  IF entities.isNone THEN Raise(s, "AttributeError in check_permissions")
        ELSE IF ~RoleIsValid(s.user_role)
        THEN Visit([s EXCEPT !.error_type = "PERMISSION_DENIED",
                             !.error_internal_message = Msg("Rol desconocido", <<s.user_role>>, << >>),
                             !.error_user_message = Text("Tu cuenta no tiene un rol valido configurado.")],
                   "check_permissions")
        ELSE IF denied_tables # << >>
        THEN Visit([s EXCEPT !.error_type = "PERMISSION_DENIED",
                             !.error_internal_message = Msg("Acceso denegado a", denied_tables, << >>),
                             !.error_user_message = IF is_write_operation
                                                    THEN Text("No tienes permisos para modificar esta informacion. Solo puedes consultar datos.")
                                                    ELSE Text("No tienes acceso a ver esta informacion con tu rol actual."),
                             !.error_suggestions = TRUE],
                   "check_permissions")
        ELSE Visit(sensitive, "check_permissions")

get_allowed_tables_for_role(role, write) ==
    LET permissions == IF write THEN WRITE_PERMISSIONS ELSE READ_PERMISSIONS
    IN  IF role \in DOMAIN permissions THEN permissions[role] ELSE {}

can_access_table(role, table, write) == table \in get_allowed_tables_for_role(role, write)

\* The context-merge node between the Gate and the Synthesizer.
combine_context(s) == s

-----------------------------------------------------------------------------
(* generate_sql *)

\* A statement is a list of tokens: keywords, table names, ";" and "<junk>"
\* (text that is not SQL).
MutatingKeywords == {"INSERT", "UPDATE", "DELETE", "DROP", "ALTER", "TRUNCATE"}

\* The database that holds each schema (SQL_GENERATION_SYSTEM_PROMPT, lines 48-52)
SchemaDatabase == [auth |-> "auth", clinic |-> "core", ops |-> "ops", finance |-> "ops"]

TablesOfSchema == [auth |-> {"auth.clinicas", "auth.sys_usuarios", "auth.audit_logs"},
                   clinic |-> {"clinic.pacientes", "clinic.tratamientos", "clinic.evoluciones", "clinic.evidencias", "clinic.evoluciones_clinicas"},
                   ops |-> {"ops.podologos", "ops.citas", "ops.catalogo_servicios", "ops.solicitudes_prospectos"},
                   finance |-> {"finance.pagos", "finance.transacciones", "finance.gastos"}]

SchemasOf(query) == {sch \in DOMAIN TablesOfSchema : \E i \in 1..Len(query) : query[i] \in TablesOfSchema[sch]}

HasMutatingKeyword(query) == \E i \in 1..Len(query) : query[i] \in MutatingKeywords

\* The statements the synthesis service may write.
SqlTexts == {<<"SELECT", "clinic.pacientes", "LIMIT">>,
             <<"SELECT", "clinic.pacientes", "JOIN", "ops.citas">>,
             <<"DELETE", "clinic.pacientes">>,
             <<"SELECT", "ops.citas", ";", "DROP", "ops.citas">>}

SqlObj(dict, sql, hasSql, target_db) == [dict |-> dict, sql |-> sql, hasSql |-> hasSql, target_db |-> target_db]

SqlObjs ==
    {SqlObj(TRUE, q, TRUE, "missing") : q \in SqlTexts}
    \cup {SqlObj(TRUE, <<"SELECT", "ops.citas", "LIMIT">>, TRUE, db) : db \in {"ops", "finance", "reportes"}}
    \cup {SqlObj(TRUE, << >>, FALSE, "missing"), SqlObj(FALSE, << >>, FALSE, "missing")}

\* Index of the first token of `query` in `toks`, 0 when there is none.
FirstIndex(query, toks) == IF \E i \in 1..Len(query) : query[i] \in toks THEN CHOOSE i \in 1..Len(query) : query[i] \in toks /\ \A j \in 1..(i - 1) : query[j] \notin toks ELSE 0

\* The raw text the SELECT pattern searches when no JSON could be parsed: the
\* statement as written, followed by whatever text comes after it.
RawTokens(text) == IF text.body = "none" THEN << >> ELSE IF text.body = "json" \/ text.post THEN text.obj.sql \o <<"<junk>">> ELSE text.obj.sql

\* re.search(r'SELECT.*?(?:LIMIT \d+|;|$)') and .strip().rstrip(';') (lines 247-250)
SelectMatch(raw) ==
    LET start == FirstIndex(raw, {"SELECT"})
        rest == SubSeq(raw, start, Len(raw))
        stop == FirstIndex(rest, {"LIMIT", ";"})
    IN  IF start = 0 THEN << >>
        ELSE IF stop = 0 THEN rest
        ELSE IF rest[stop] = ";" THEN SubSeq(rest, 1, stop - 1)
        ELSE SubSeq(rest, 1, stop)

\* _parse_sql_response: the value returned, or raised = TRUE for ValueError
_parse_sql_response(text) ==
    IF JsonLoads(text) THEN [raised |-> FALSE, result |-> text.obj]
    ELSE IF JsonBraceSpan(text) THEN [raised |-> FALSE, result |-> text.obj]
    ELSE IF SelectMatch(RawTokens(text)) # << >> THEN [raised |-> FALSE, result |-> SqlObj(TRUE, SelectMatch(RawTokens(text)), TRUE, "core")]
    ELSE [raised |-> TRUE, result |-> SqlObj(FALSE, << >>, FALSE, "missing")]

_map_target_db(db_name) ==
    CASE db_name = "auth" -> "AUTH"
      [] db_name \in {"core", "clinic"} -> "CORE"
      [] db_name \in {"ops", "finance"} -> "OPS"
      [] OTHER -> "CORE"

SynthShapes == {ReplyText(pre, FALSE, bn, "json", 0) : pre \in BOOLEAN, bn \in BOOLEAN} \cup {ReplyText(FALSE, post, FALSE, "sql", 0) : post \in BOOLEAN} \cup {ReplyText(FALSE, FALSE, FALSE, "none", 0)}

\* What the synthesis call can do: raise, or return a text.
SynthOutcomes ==
    {[kind |-> "raise", text |-> ReplyText(FALSE, FALSE, FALSE, "none", SqlObj(FALSE, << >>, FALSE, "missing"))]}
    \cup {[kind |-> "text", text |-> [sh EXCEPT !.obj = o]] : sh \in SynthShapes, o \in SqlObjs}

\* The except branch of generate_sql (lines 211-220)
SynthFallback(s, why) == [s EXCEPT !.error_type = "SQL_ERROR", !.error_internal_message = Msg("EXC", <<why>>, << >>), !.error_user_message = Text("No pude interpretar tu consulta correctamente. Intenta reformularla de otra manera.")]

\* The try block of generate_sql (lines 155-209)
SynthWithService(s, out) ==
    LET parsed == _parse_sql_response(out.text)
        result == parsed.result
        target_db == _map_target_db(IF result.target_db = "missing" THEN "core" ELSE result.target_db)
    IN  IF out.kind = "raise" THEN SynthFallback(s, "service_error")
        ELSE IF parsed.raised THEN SynthFallback(s, "ValueError")
        ELSE IF ~result.dict THEN SynthFallback(s, "AttributeError")
        ELSE IF ~result.hasSql THEN SynthFallback(s, "KeyError")
        ELSE [s EXCEPT !.sql_query = [set |-> TRUE, query |-> result.sql, target_db |-> target_db, is_mutation |-> FALSE, tables_involved |-> {}],
                       !.target_database = target_db]

\* The conversational early return dropped: every intent goes on.
NeedsNoSql_Never(intent) == FALSE

\* intent in [GREETING, OUT_OF_SCOPE, CLARIFICATION] (line 139)
NeedsNoSql(intent) == intent \in {"greeting", "out_of_scope", "clarification"}

\* The read-only guard dropped: a mutation intent goes on to synthesis.
IsMutationIntent_Never(intent) == FALSE

\* intent in [MUTATION_CREATE, MUTATION_UPDATE, MUTATION_DELETE] (line 145)
IsMutationIntent(intent) == intent \in MutationIntents

ReadOnlyMessage == Text("Las operaciones de modificacion deben hacerse desde la interfaz principal. Este asistente solo puede consultar informacion.")

\* Synthesis skipped when no table was extracted.
generate_sql_SkipsWithoutTables(s, out) ==
    IF NeedsNoSql(s.intent) \/ s.entities_extracted.tables = << >> THEN Visit(s, "generate_sql")
    ELSE IF IsMutationIntent(s.intent)
    THEN Visit([s EXCEPT !.error_type = "PERMISSION_DENIED", !.error_user_message = ReadOnlyMessage], "generate_sql")
    ELSE Visit(SynthWithService([s EXCEPT !.io_synth = @ + 1], out), "generate_sql")

generate_sql(s, out) ==
    IF NeedsNoSql(s.intent) THEN Visit(s, "generate_sql")
    ELSE IF IsMutationIntent(s.intent)
    THEN Visit([s EXCEPT !.error_type = "PERMISSION_DENIED", !.error_user_message = ReadOnlyMessage], "generate_sql")
    ELSE Visit(SynthWithService([s EXCEPT !.io_synth = @ + 1], out), "generate_sql")

-----------------------------------------------------------------------------
(* The relational store and the pg_trgm search *)

\* Similarities are counted in ten-thousandths (3000 is 0.3).
\* Threshold and limit _handle_no_results passes to the search
FUZZY_THRESHOLD == 3000

FUZZY_LIMIT == 3

\* settings.AGENT_FUZZY_THRESHOLD
AGENT_FUZZY_THRESHOLD == 3000

\* pg_trgm.similarity_threshold, the limit of the % operator (0.3 unless set)
TRGM_LIMIT == 3000

Patients == 1..MaxPatients

\* similarity(<text of row p>, term): tenths that depend on the row and the
\* term, plus a few ten-thousandths
Similarity(p, term) == (IF term = "Juan Perez" THEN (7 * p + 2) % 10 ELSE IF term = "hoy" THEN (3 * p + 1) % 10 ELSE (p + 1) % 3) * 1000 + (p % 2) * 4

\* round(float(row.sim_score), 3): to the nearest thousandth
Round3(x) == ((x + 5) \div 10) * 10

RECURSIVE OrderBySimDesc(_, _)
OrderBySimDesc(rows, term) ==
    IF rows = {} THEN << >>
    ELSE LET top == CHOOSE p \in rows : \A q \in rows : Similarity(p, term) > Similarity(q, term) \/ (Similarity(p, term) = Similarity(q, term) /\ p <= q)
         IN  <<top>> \o OrderBySimDesc(rows \ {top}, term)

\* The LIMIT clause dropped: every matching row comes back.
SqlLimit_Unlimited(rows, limit) == rows

\* LIMIT :limit
SqlLimit(rows, limit) == SubSeq(rows, 1, IF Len(rows) < limit THEN Len(rows) ELSE limit)

\* threshold if threshold > 0 else settings.AGENT_FUZZY_THRESHOLD
EffectiveThreshold(threshold) == IF threshold > 0 THEN threshold ELSE AGENT_FUZZY_THRESHOLD

\* The threshold filter dropped: every row the % operator matches is selected.
SqlWhereSimilar_NoFilter(db, term, threshold) == db

\* AND similarity(...) >= :threshold
SqlWhereSimilar(db, term, threshold) == {p \in db : Similarity(p, term) >= threshold}

\* AND (...) % :term
SqlTrgmMatch(db, term) == {p \in db : Similarity(p, term) >= TRGM_LIMIT}

\* The rows of the SELECT, in order: WHERE ... ORDER BY sim_score DESC LIMIT :limit
SqlSelectSimilar(db, term, threshold, limit) == SqlLimit(OrderBySimDesc(SqlWhereSimilar(SqlTrgmMatch(db, term), term, threshold), term), limit)

\* fuzzy_search_patient over a store whose active patients are db; a store
\* error gives the empty list, as an empty store does.  A match is the row
\* (whose full name is nombre_completo) with its rounded similarity.
fuzzy_search_patient(search_term, threshold, limit, db) ==
    LET rows == SqlSelectSimilar(db, search_term, EffectiveThreshold(threshold), limit)
    IN  [i \in 1..Len(rows) |-> [row |-> rows[i], similitud |-> Round3(Similarity(rows[i], search_term))]]

\* fuzzy_search_podologo over a store whose active podologos are db.
fuzzy_search_podologo(search_term, threshold, limit, db) ==
    LET rows == SqlSelectSimilar(db, search_term, EffectiveThreshold(threshold), limit)
    IN  [i \in 1..Len(rows) |-> [row |-> rows[i], similitud |-> Round3(Similarity(rows[i], search_term))]]

\* The tables and fields open to fuzzy_search_field
FUZZY_SEARCHABLE_FIELDS == [pacientes |-> {"nombres", "apellidos", "telefono", "email"},
                            tratamientos |-> {"problema", "zona_afectada"},
                            podologos |-> {"nombres", "apellidos", "especialidad"},
                            catalogo_servicios |-> {"nombre_servicio", "descripcion"},
                            solicitudes_prospectos |-> {"nombre", "telefono", "motivo_consulta"}]

\* fuzzy_search_field over a table whose rows with a non-null field are db;
\* the similarity of a FuzzyMatch is not rounded.
fuzzy_search_field(search_term, table, field, threshold, limit, db) ==
    LET rows == SqlSelectSimilar(db, search_term, EffectiveThreshold(threshold), limit)
    IN  IF table \notin DOMAIN FUZZY_SEARCHABLE_FIELDS THEN << >>
        ELSE IF field \notin FUZZY_SEARCHABLE_FIELDS[table] THEN << >>
        ELSE [i \in 1..Len(rows) |-> [row |-> rows[i], similitud |-> Similarity(rows[i], search_term)]]

StoreErrors == {"ERROR: relation clinic.paciente does not exist", ""}

ColumnSets == {<<"nombres", "apellidos", "telefono">>, <<"fecha", "motivo">>, <<"nombre_servicio", "precio">>, <<"total_pacientes">>, <<"count">>, <<"email">>, <<"id_cita", "status">>}

Success(row_count, columns, value) == [set |-> TRUE, success |-> TRUE, row_count |-> row_count, columns |-> columns, value |-> value, error_message |-> ""]

Failure(error_message) == [set |-> TRUE, success |-> FALSE, row_count |-> 0, columns |-> << >>, value |-> 0, error_message |-> error_message]

\* What the store can answer to a statement: rows (value is the first row's
\* first column when it is a number), or an error.
StoreAnswers == {Success(n, <<"id_cita", "status">>, 0) : n \in 0..MaxRows} \cup {Success(n, c, 42) : n \in {1, 2}, c \in ColumnSets} \cup {Failure(m) : m \in StoreErrors}

\* The executor's own safety check: a read-only statement on tables the role may read.
validate_query_safety(sql_query, user_role) == ~HasMutatingKeyword(sql_query.query) /\ \A i \in 1..Len(sql_query.query) : sql_query.query[i] \in AllTables => sql_query.query[i] \in AllowedTables(user_role, FALSE)

execute_safe_query(sql_query, user_role, answer) == IF validate_query_safety(sql_query, user_role) THEN answer ELSE Failure("Consulta no permitida")

\* What the store can do during one execute_sql: its answer to the statement
\* and, for the search that follows an empty answer, its active patients.
ExecOutcomes == {[answer |-> a, db |-> {}] : a \in {x \in StoreAnswers : ~x.success \/ x.row_count > 0}} \cup {[answer |-> a, db |-> db] : a \in {x \in StoreAnswers : x.success /\ x.row_count = 0}, db \in SUBSET Patients}

-----------------------------------------------------------------------------
(* execute_sql *)

\* [m["nombre_completo"] for m in matches]
NombreCompleto(matches) == [i \in 1..Len(matches) |-> matches[i].row]

HasKey(vals, key) == \E i \in 1..Len(vals) : vals[i][1] = key

ValueOf(vals, key) == vals[CHOOSE i \in 1..Len(vals) : vals[i][1] = key][2]

\* The loop over the other extracted values (lines 131-139): the matches of
\* the first value, from item i on, that is a string longer than 2 with matches
RECURSIVE SearchOtherFields(_, _, _)
SearchOtherFields(vals, i, db) ==
    IF i > Len(vals) THEN << >>
    ELSE IF StrLen(vals[i][2]) > 2 /\ fuzzy_search_patient(vals[i][2], FUZZY_THRESHOLD, FUZZY_LIMIT, db) # << >>
    THEN NombreCompleto(fuzzy_search_patient(vals[i][2], FUZZY_THRESHOLD, FUZZY_LIMIT, db))
    ELSE SearchOtherFields(vals, i + 1, db)

_handle_no_results(s, db) ==
    LET vals == s.entities_extracted.vals
        by_name == IF HasKey(vals, "nombre_paciente") THEN NombreCompleto(fuzzy_search_patient(ValueOf(vals, "nombre_paciente"), FUZZY_THRESHOLD, FUZZY_LIMIT, db)) ELSE << >>
        suggestions == IF by_name # << >> THEN by_name ELSE SearchOtherFields(vals, 1, db)
    IN  IF suggestions # << >>
        THEN [s EXCEPT !.fuzzy_suggestions = suggestions, !.error_type = "NO_RESULTS",
                       !.error_user_message = Msg("No encontre resultados exactos. Quizas quisiste decir", << >>, SubSeq(suggestions, 1, IF Len(suggestions) < 3 THEN Len(suggestions) ELSE 3)),
                       !.io_fuzzy = @ + 1]
        ELSE [s EXCEPT !.error_type = "NO_RESULTS",
                       !.error_user_message = Text("No encontre informacion que coincida. Verifica que los datos esten escritos correctamente."),
                       !.io_fuzzy = @ + 1]

\* Off by one: a retry is still counted when the budget is used up.
CanRetry_OffByOne(retry_count, max_retries) == retry_count <= max_retries

\* retry_count < max_retries (line 91)
CanRetry(retry_count, max_retries) == retry_count < max_retries

RephraseMessage == Text("No pude completar la busqueda. Intenta reformular tu pregunta de otra manera.")

\* The skip on a prior error dropped: a stored query is always run.
execute_sql_NoSkipOnError(s, out) ==
    LET result == execute_safe_query(s.sql_query, s.user_role, out.answer)
        s1 == [s EXCEPT !.execution_result = result, !.io_store = @ + 1]
    IN  IF ~s.sql_query.set THEN Visit(s, "execute_sql")
        ELSE IF result.success
        THEN Visit(IF result.row_count = 0 THEN _handle_no_results(s1, out.db) ELSE s1, "execute_sql")
        ELSE IF CanRetry(s.retry_count, s.max_retries)
        THEN Visit([s1 EXCEPT !.retry_count = s.retry_count + 1, !.error_type = "SQL_ERROR",
                              !.error_internal_message = IF result.error_message # "" THEN Msg("STORE", <<result.error_message>>, << >>) ELSE Text("Error SQL desconocido")],
                   "execute_sql")
        ELSE Visit([s1 EXCEPT !.error_type = "SQL_ERROR", !.error_user_message = RephraseMessage], "execute_sql")

execute_sql(s, out) ==
    LET result == execute_safe_query(s.sql_query, s.user_role, out.answer)
        s1 == [s EXCEPT !.execution_result = result, !.io_store = @ + 1]
    IN  IF ~s.sql_query.set THEN Visit(s, "execute_sql")
        ELSE IF s.error_type # "NONE" THEN Visit(s, "execute_sql")
        ELSE IF result.success
        THEN Visit(IF result.row_count = 0 THEN _handle_no_results(s1, out.db) ELSE s1, "execute_sql")
        ELSE IF CanRetry(s.retry_count, s.max_retries)
        THEN Visit([s1 EXCEPT !.retry_count = s.retry_count + 1, !.error_type = "SQL_ERROR",
                              !.error_internal_message = IF result.error_message # "" THEN Msg("STORE", <<result.error_message>>, << >>) ELSE Text("Error SQL desconocido")],
                   "execute_sql")
        ELSE Visit([s1 EXCEPT !.error_type = "SQL_ERROR", !.error_user_message = RephraseMessage], "execute_sql")

-----------------------------------------------------------------------------
(* generate_response *)

\* What a reply-writing call can do: return a text, return an empty text, raise.
ComposeOutcomes == {"text", "empty", "raise"}

\* A conversational helper: the service's text, or its fixed fallback on failure
ServiceReply(out, reply, fallback) == IF out = "text" THEN Text(reply) ELSE IF out = "empty" THEN EmptyText ELSE Text(fallback)

_get_greeting_response(out) == ServiceReply(out, "<saludo del modelo>", "Hola! Soy tu asistente de la clinica. Que informacion necesitas consultar?")

_get_out_of_scope_response(out) == ServiceReply(out, "<respuesta fuera de alcance del modelo>", "Esa consulta esta fuera de mi especialidad. Puedo ayudarte con informacion de la base de datos de la clinica.")

_get_clarification_response(out) == ServiceReply(out, "<peticion de aclaracion del modelo>", "No estoy seguro de que informacion necesitas. Podrias ser mas especifico?")

\* The catalog of friendly messages, keyed by error kind
format_friendly_error(error_type, alternatives) == Msg("FRIENDLY_MESSAGES[" \o error_type \o "]", << >>, alternatives)

_format_error_response(s) ==
    IF s.error_user_message # NoMsg /\ s.error_user_message # EmptyText THEN s.error_user_message
    ELSE format_friendly_error(s.error_type, s.fuzzy_suggestions)

\* The count heuristic dropped: no column name marks a count.
IsCountColumn_Never(col_name) == FALSE

\* any(word in col_name for word in ['count', 'total', 'cantidad']) (line 355)
IsCountColumn(col_name) == col_name \in {"total_pacientes", "total_en_curso", "count"}

_format_generic_results(result) ==
    IF result.row_count = 1 /\ Len(result.columns) = 1 /\ IsCountColumn(result.columns[1])
    THEN IF result.columns[1] = "total_pacientes" THEN Msg("Total de pacientes", << >>, <<result.value>>) ELSE Msg("Resultado", << >>, <<result.value>>)
    ELSE Msg("Encontre N resultado(s)", << >>, <<result.row_count>>)

_format_simple_results(result) ==
    IF result.row_count = 0 THEN Text("No encontre resultados para tu busqueda.")
    ELSE IF InSeq("nombres", result.columns) /\ InSeq("apellidos", result.columns) THEN Msg("Encontre N paciente(s)", << >>, <<result.row_count>>)
    ELSE IF InSeq("fecha_hora", result.columns) \/ InSeq("fecha", result.columns) THEN Msg("N cita(s) encontrada(s)", << >>, <<result.row_count>>)
    ELSE IF InSeq("nombre_servicio", result.columns) THEN Text("Servicios disponibles")
    ELSE _format_generic_results(result)

_format_with_llm(result, out) == IF out = "text" THEN Text("<resumen del modelo>") ELSE IF out = "empty" THEN EmptyText ELSE _format_generic_results(result)

\* The direct formatting dropped: every result goes to the summarisation service.
FewRows_Never(row_count) == FALSE

\* 0 < result.row_count <= 5 (line 153)
FewRows(row_count) == 0 < row_count /\ row_count <= 5

\* The error branch moved in front of the conversational branches.
generate_response_ErrorFirst(s, out) ==
    LET result == s.execution_result
        called == [s EXCEPT !.io_compose = @ + 1]
    IN  IF s.error_type # "NONE" THEN Visit([s EXCEPT !.response_text = _format_error_response(s)], "generate_response")
        ELSE IF s.intent = "greeting" THEN Visit([called EXCEPT !.response_text = _get_greeting_response(out)], "generate_response")
        ELSE IF s.intent = "out_of_scope" THEN Visit([called EXCEPT !.response_text = _get_out_of_scope_response(out)], "generate_response")
        ELSE IF s.intent = "clarification" THEN Visit([called EXCEPT !.response_text = _get_clarification_response(out)], "generate_response")
        ELSE IF ~result.set \/ ~result.success THEN Visit([s EXCEPT !.response_text = Text("No pude completar la busqueda. Por favor, intenta de nuevo.")], "generate_response")
        ELSE Visit([(IF FewRows(result.row_count) THEN s ELSE called) EXCEPT
                       !.response_text = IF FewRows(result.row_count) THEN _format_simple_results(result) ELSE _format_with_llm(result, out),
                       !.response_data = [set |-> TRUE, row_count |-> result.row_count]],
                   "generate_response")

generate_response(s, out) ==
    LET result == s.execution_result
        called == [s EXCEPT !.io_compose = @ + 1]
    IN  IF s.intent = "greeting" THEN Visit([called EXCEPT !.response_text = _get_greeting_response(out)], "generate_response")
        ELSE IF s.intent = "out_of_scope" THEN Visit([called EXCEPT !.response_text = _get_out_of_scope_response(out)], "generate_response")
        ELSE IF s.intent = "clarification" THEN Visit([called EXCEPT !.response_text = _get_clarification_response(out)], "generate_response")
        ELSE IF s.error_type # "NONE" THEN Visit([s EXCEPT !.response_text = _format_error_response(s)], "generate_response")
        ELSE IF ~result.set \/ ~result.success THEN Visit([s EXCEPT !.response_text = Text("No pude completar la busqueda. Por favor, intenta de nuevo.")], "generate_response")
        ELSE Visit([(IF FewRows(result.row_count) THEN s ELSE called) EXCEPT
                       !.response_text = IF FewRows(result.row_count) THEN _format_simple_results(result) ELSE _format_with_llm(result, out),
                       !.response_data = [set |-> TRUE, row_count |-> result.row_count]],
                   "generate_response")

-----------------------------------------------------------------------------
(* The graph: one run per behaviour *)

\* The node after `node` (webapp_subgraph.py lines 64-72); an escaped
\* exception ends the run.
NextNode(node, s) ==
    IF s.exc # "" THEN "raised"
    ELSE CASE node = "route_by_origin" -> "classify_intent"
           [] node = "classify_intent" -> "check_permissions"
           [] node = "check_permissions" -> "combine_context"
           [] node = "combine_context" -> "nl_to_sql"
           [] node = "nl_to_sql" -> "sql_exec"
           [] node = "sql_exec" -> "llm_response"
           [] node = "llm_response" -> "END"

Init ==
    /\ pc = "route_by_origin"
    /\ \E query \in Queries, role \in Roles, origin \in {"webapp", "telegram"}, max_retries \in 0..MaxRetries :
          state = create_initial_state(query, role, origin, max_retries)

Step(node, s) ==
    /\ state' = s
    /\ pc' = NextNode(node, s)

RouteByOrigin ==
    /\ pc = "route_by_origin"
    /\ route_by_origin(state) \in {"webapp_flow", "whatsapp_paciente_flow", "whatsapp_user_flow"}
    /\ Step("route_by_origin", route_by_origin_node(state))

ClassifyIntent ==
    /\ pc = "classify_intent"
    /\ \E out \in ClassifyOutcomes : Step("classify_intent", classify_intent(state, out))

CheckPermissions ==
    /\ pc = "check_permissions"
    /\ Step("check_permissions", check_permissions(state))

CombineContext ==
    /\ pc = "combine_context"
    /\ Step("combine_context", combine_context(state))

NlToSql ==
    /\ pc = "nl_to_sql"
    /\ \E out \in SynthOutcomes : Step("nl_to_sql", generate_sql(state, out))

SqlExec ==
    /\ pc = "sql_exec"
    /\ \E out \in ExecOutcomes : Step("sql_exec", execute_sql(state, out))

LlmResponse ==
    /\ pc = "llm_response"
    /\ \E out \in ComposeOutcomes : Step("llm_response", generate_response(state, out))

Next == RouteByOrigin \/ ClassifyIntent \/ CheckPermissions \/ CombineContext \/ NlToSql \/ SqlExec \/ LlmResponse

Spec == Init /\ [][Next]_vars

-----------------------------------------------------------------------------
(* Two requests at once: their runs interleaved at the stage boundaries *)

\* The tables of SCHEMA_DESCRIPTIONS (its keys)
SCHEMA_DESCRIPTIONS == {"auth.clinicas", "auth.sys_usuarios", "auth.audit_logs", "clinic.pacientes", "clinic.tratamientos", "clinic.evoluciones_clinicas", "clinic.evidencias", "ops.podologos", "ops.citas", "ops.catalogo_servicios", "ops.solicitudes_prospectos", "finance.metodos_pago", "finance.pagos", "finance.transacciones", "finance.gastos"}

\* The module-level objects every run reads
SharedTables == [READ_PERMISSIONS |-> READ_PERMISSIONS, WRITE_PERMISSIONS |-> WRITE_PERMISSIONS, RESTRICTED_PATIENT_FIELDS |-> RESTRICTED_PATIENT_FIELDS, ENTITY_TO_TABLE |-> ENTITY_TO_TABLE, SCHEMA_DESCRIPTIONS |-> SCHEMA_DESCRIPTIONS]

Runs == {1, 2}

JsonReply(obj) == ReplyText(FALSE, FALSE, FALSE, "json", obj)

\* The requests of the two runs: the query and role, and what each external
\* call of the run answers
RunRequests ==
    [query : {q \in Queries : q.text \in {"Hola", "Busca a Juan Perez"}},
     role : {"Admin", "Recepcion"},
     classify : {[kind |-> "text", text |-> JsonReply(ClassificationObj(TRUE, i, 90, "list", el, "nombre"))] : i \in {"query_read", "mutation_delete"}, el \in {<<"paciente">>, <<"pago">>}}
                \cup {[kind |-> "raise", text |-> ReplyText(FALSE, FALSE, FALSE, "none", DefaultClassification)]},
     synth : {[kind |-> "text", text |-> JsonReply(SqlObj(TRUE, <<"SELECT", "clinic.pacientes", "LIMIT">>, TRUE, "missing"))],
              [kind |-> "raise", text |-> ReplyText(FALSE, FALSE, FALSE, "none", SqlObj(FALSE, << >>, FALSE, "missing"))]},
     exec : {[answer |-> Success(2, <<"nombres", "apellidos", "telefono">>, 42), db |-> {}], [answer |-> Failure("ERROR: relation clinic.paciente does not exist"), db |-> {}]},
     compose : {"text"}]

\* The stage `node` applied to the state s of a run with request req
StageOf(node, s, req) ==
    CASE node = "route_by_origin" -> route_by_origin_node(s)
      [] node = "classify_intent" -> classify_intent(s, req.classify)
      [] node = "check_permissions" -> check_permissions(s)
      [] node = "combine_context" -> combine_context(s)
      [] node = "nl_to_sql" -> generate_sql(s, req.synth)
      [] node = "sql_exec" -> execute_sql(s, req.exec)
      [] node = "llm_response" -> generate_response(s, req.compose)

\* A stage that grants what it checks: check_permissions adds the requested
\* tables to the read set of the role.
SharedAfterStage_GateGrants(node, s, shared) ==
    IF node = "check_permissions" /\ s.user_role \in DOMAIN shared.READ_PERMISSIONS
    THEN [shared EXCEPT !.READ_PERMISSIONS[s.user_role] = @ \cup {s.entities_extracted.tables[i] : i \in 1..Len(s.entities_extracted.tables)}]
    ELSE shared

\* The module-level objects after a stage has run on s: classify_intent reads
\* ENTITY_TO_TABLE, check_permissions reads the permission sets and puts the
\* restricted-field list of the role into the entities, generate_sql reads
\* SCHEMA_DESCRIPTIONS; no stage assigns to them or to their items
SharedAfterStage(node, s, shared) == shared

InitInterleaved ==
    /\ pc = [r \in Runs |-> "route_by_origin"]
    /\ \E req \in [Runs -> RunRequests] :
          state = [shared |-> SharedTables, request |-> req,
                   runs |-> [r \in Runs |-> create_initial_state(req[r].query, req[r].role, "webapp", 1)]]

\* Run r takes its next stage
RunStage(r) ==
    /\ pc[r] \notin {"END", "raised"}
    /\ LET s == StageOf(pc[r], state.runs[r], state.request[r])
       IN  /\ state' = [state EXCEPT !.runs[r] = s, !.shared = SharedAfterStage(pc[r], state.runs[r], @)]
           /\ pc' = [pc EXCEPT ![r] = NextNode(pc[r], s)]

NextInterleaved == \E r \in Runs : RunStage(r)

SpecInterleaved == InitInterleaved /\ [][NextInterleaved]_vars

\* The final state of a request run on its own from `node` on
RECURSIVE RunAlone(_, _, _)
RunAlone(node, s, req) ==
    IF node \in {"END", "raised"} THEN s
    ELSE RunAlone(NextNode(node, StageOf(node, s, req)), StageOf(node, s, req), req)

-----------------------------------------------------------------------------
(* The retry the comment of execute_sql asks of the graph ("El grafo debe  *)
(* manejar el reintento volviendo a generate_sql"): generate_sql and       *)
(* execute_sql invoked again on the same state after a failed execution    *)

\* The states check_permissions hands on
RetryStarts ==
    {s \in {check_permissions(classify_intent(route_by_origin_node(create_initial_state(query, role, "webapp", max_retries)), out)) :
                query \in Queries, role \in Roles, max_retries \in 0..MaxRetries,
                out \in {o \in ClassifyOutcomes : o.kind = "text" /\ JsonLoads(o.text)}} : s.exc = ""}

InitRetry ==
    /\ pc = "nl_to_sql"
    /\ state \in RetryStarts

RetryGenerateSql ==
    /\ pc = "nl_to_sql"
    /\ \E out \in SynthOutcomes : state' = generate_sql(state, out)
    /\ pc' = "sql_exec"

\* execute_sql, followed by generate_sql again when it counted a retry
RetryExecuteSql ==
    /\ pc = "sql_exec"
    /\ \E out \in ExecOutcomes : state' = execute_sql(state, out)
    /\ pc' = IF state'.retry_count > state.retry_count THEN "nl_to_sql" ELSE "llm_response"

NextRetry == RetryGenerateSql \/ RetryExecuteSql

SpecRetry == InitRetry /\ [][NextRetry]_vars

-----------------------------------------------------------------------------
(* The two reply parsers on their own: one call per behaviour *)

\* The texts handed to each parser
ParserTexts(parser) ==
    IF parser = "classification" THEN {out.text : out \in {o \in ClassifyOutcomes : o.kind = "text"}}
    ELSE {out.text : out \in {o \in SynthOutcomes : o.kind = "text"}}

InitParse ==
    /\ pc = "start"
    /\ \E parser \in {"classification", "sql"} : \E text \in ParserTexts(parser) :
          state = [parser |-> parser, text |-> text, raised |-> FALSE, result |-> [dict |-> FALSE]]

ParseClassification ==
    /\ pc = "start"
    /\ state.parser = "classification"
    /\ state' = [state EXCEPT !.result = _parse_classification_response(state.text)]
    /\ pc' = "done"

ParseSql ==
    /\ pc = "start"
    /\ state.parser = "sql"
    /\ state' = [state EXCEPT !.raised = _parse_sql_response(state.text).raised, !.result = _parse_sql_response(state.text).result]
    /\ pc' = "done"

NextParse == ParseClassification \/ ParseSql

SpecParse == InitParse /\ [][NextParse]_vars

-----------------------------------------------------------------------------
(* The search functions on their own: one call per behaviour *)

FuzzyTerms == {"Juan Perez", "hoy"}

\* threshold arguments: not positive (the default applies), 0.3, 0.3004, 0.5
FuzzyThresholds == {-1000, 0, 3000, 3004, 5000}

FuzzyLimits == 0..MaxLimit

FuzzyCall(fn, search_term, threshold, limit, tf, vals, db) == [fn |-> fn, search_term |-> search_term, threshold |-> threshold, limit |-> limit, table |-> tf[1], field |-> tf[2], vals |-> vals, db |-> db, matches |-> << >>, suggestions |-> << >>]

InitFuzzy ==
    /\ pc = "fuzzy_call"
    /\ \/ \E fn \in {"fuzzy_search_patient", "fuzzy_search_podologo"}, term \in FuzzyTerms, th \in FuzzyThresholds, limit \in FuzzyLimits, db \in SUBSET Patients :
             state = FuzzyCall(fn, term, th, limit, <<"", "">>, "empty", db)
       \/ \E term \in FuzzyTerms, th \in FuzzyThresholds, limit \in FuzzyLimits, tf \in {<<"pacientes", "nombres">>, <<"catalogo_servicios", "nombre_servicio">>, <<"pacientes", "curp">>, <<"citas", "motivo">>}, db \in SUBSET Patients :
             state = FuzzyCall("fuzzy_search_field", term, th, limit, tf, "empty", db)
       \/ \E opt \in ValueOptions \ {"null"}, db \in SUBSET Patients :
             state = FuzzyCall("_handle_no_results", "", FUZZY_THRESHOLD, FUZZY_LIMIT, <<"", "">>, opt, db)

FuzzySearchPatient ==
    /\ pc = "fuzzy_call" /\ state.fn = "fuzzy_search_patient"
    /\ state' = [state EXCEPT !.matches = fuzzy_search_patient(state.search_term, state.threshold, state.limit, state.db)]
    /\ pc' = "fuzzy_done"

FuzzySearchPodologo ==
    /\ pc = "fuzzy_call" /\ state.fn = "fuzzy_search_podologo"
    /\ state' = [state EXCEPT !.matches = fuzzy_search_podologo(state.search_term, state.threshold, state.limit, state.db)]
    /\ pc' = "fuzzy_done"

FuzzySearchField ==
    /\ pc = "fuzzy_call" /\ state.fn = "fuzzy_search_field"
    /\ state' = [state EXCEPT !.matches = fuzzy_search_field(state.search_term, state.table, state.field, state.threshold, state.limit, state.db)]
    /\ pc' = "fuzzy_done"

\* _handle_no_results on a state whose extracted values are state.vals
HandleNoResults ==
    /\ pc = "fuzzy_call" /\ state.fn = "_handle_no_results"
    /\ LET s == [create_initial_state(Query("Busca a Juan Perez", FALSE, TRUE, FALSE, FALSE, FALSE), "Admin", "webapp", MaxRetries)
                    EXCEPT !.entities_extracted.vals = ExtractedValues(state.vals)]
       IN  state' = [state EXCEPT !.suggestions = _handle_no_results(s, state.db).fuzzy_suggestions]
    /\ pc' = "fuzzy_done"

NextFuzzy == FuzzySearchPatient \/ FuzzySearchPodologo \/ FuzzySearchField \/ HandleNoResults

SpecFuzzy == InitFuzzy /\ [][NextFuzzy]_vars

-----------------------------------------------------------------------------
(* Structured codes: registrations that share one prefix and one date *)

\* A code XXXX-MMDD-NNNNN is modelled by its counter part, the list of its
\* decimal digits; the prefix and the date are the same for every code here.
\* The width of the counter: str(nuevo_numero).zfill(5)
CODE_WIDTH == 5

RECURSIVE Digits(_)
\* str(n)
Digits(n) == IF n < 10 THEN <<n>> ELSE Digits(n \div 10) \o <<n % 10>>

RECURSIVE ZFill(_, _)
\* s.zfill(width)
ZFill(s, width) == IF Len(s) >= width THEN s ELSE ZFill(<<0>> \o s, width)

RECURSIVE IntOf(_)
\* int(partes[2])
IntOf(s) == IF s = << >> THEN 0 ELSE 10 * IntOf(SubSeq(s, 1, Len(s) - 1)) + s[Len(s)]

\* a < b as strings: at the first position where they differ, or a is a proper prefix of b
StrLess(a, b) ==
    \/ \E i \in 1..Len(a) : i <= Len(b) /\ a[i] < b[i] /\ \A j \in 1..(i - 1) : a[j] = b[j]
    \/ Len(a) < Len(b) /\ \A j \in 1..Len(a) : a[j] = b[j]

\* The codes 1..base were stored by earlier registrations (base < 10^5, so
\* they all have CODE_WIDTH digits and the greatest string is the one of base).
BaseCodes(base) == IF base = 0 THEN {} ELSE {ZFill(Digits(base), CODE_WIDTH)}

\* func.max(model_class.codigo_interno) over the rows LIKE 'prefijo-mmdd-%':
\* the greatest string, << >> for NULL
FuncMax(codes) == IF codes = {} THEN << >> ELSE CHOOSE c \in codes : \A d \in codes : d = c \/ StrLess(d, c)

\* Steps 4-5 of generar_codigo_interno / generar_codigo_clinica: the counter
\* part of the new code, given the greatest stored code
generar_codigo_interno(ultimo_codigo) == ZFill(Digits(IF ultimo_codigo # << >> THEN IntOf(ultimo_codigo) + 1 ELSE 1), CODE_WIDTH)

Registrations == 1..MaxRegistrations

\* Every code the table holds
StoredCodes(s) == BaseCodes(s.base) \cup {s.stored[i] : i \in 1..Len(s.stored)}

InitCodes ==
    /\ pc = [r \in Registrations |-> "start"]
    /\ \E base \in {0, 7, 99998, 99999} : state = [base |-> base, stored |-> << >>, ultimo_codigo |-> [r \in Registrations |-> << >>]]

\* Step 3: registration r reads the greatest code of its prefix and date
ReadUltimoCodigo(r) ==
    /\ pc[r] = "start"
    /\ state' = [state EXCEPT !.ultimo_codigo[r] = FuncMax(StoredCodes(state))]
    /\ pc' = [pc EXCEPT ![r] = "read"]

\* Registration r builds its code from what it read, and the caller stores it
StoreCodigo(r) ==
    /\ pc[r] = "read"
    /\ state' = [state EXCEPT !.stored = Append(@, generar_codigo_interno(state.ultimo_codigo[r]))]
    /\ pc' = [pc EXCEPT ![r] = "done"]

NextCodes == \E r \in Registrations : ReadUltimoCodigo(r) \/ StoreCodigo(r)

SpecCodes == InitCodes /\ [][NextCodes]_vars

-----------------------------------------------------------------------------
(* The appointment endpoints (api/routes/citas.py) over the table ops.citas *)

\* The statuses CitaStatusUpdate accepts ("No Asistio" stands for the
\* accented source string)
CitaStatuses == {"Pendiente", "Confirmada", "En Sala", "Realizada", "Cancelada", "No Asistio"}

\* The scheduling fields of CitaCreate / CitaUpdate (the other fields take no
\* part in the conflict query)
CitaData == [podologo_id : {1, 2}, fecha_cita : {1, 2}, hora_inicio : (0..MaxHora), hora_fin : (0..MaxHora)]

\* The requests to create_cita
CitaRequests == 1..MaxCitas

\* The filter of the conflict query of create_cita: a stored row c blocks the
\* requested data
Conflicto(c, data) ==
    /\ c.podologo_id = data.podologo_id
    /\ c.fecha_cita = data.fecha_cita
    /\ ~c.deleted_at
    /\ c.status \notin {"Cancelada", "No Asistio"}
    /\ c.hora_inicio < data.hora_fin
    /\ c.hora_fin > data.hora_inicio

\* The table as metadata.create_all builds it from the Cita model: no
\* constraint besides the primary key; id_cita is the position of the row
InitCitas ==
    /\ pc = [r \in CitaRequests |-> "start"]
    /\ state = [citas |-> << >>, data |-> [r \in CitaRequests |-> << >>]]

\* create_cita up to its conflict query: a request with hora_fin <= hora_inicio
\* ends with 400, one that finds a conflicting row with 409, any other goes on
\* to build its row
CreateCitaQuery(r) ==
    /\ pc[r] = "start"
    /\ \E data \in CitaData :
        IF data.hora_fin <= data.hora_inicio
        THEN /\ pc' = [pc EXCEPT ![r] = "400"]
             /\ UNCHANGED state
        ELSE IF \E i \in 1..Len(state.citas) : Conflicto(state.citas[i], data)
        THEN /\ pc' = [pc EXCEPT ![r] = "409"]
             /\ UNCHANGED state
        ELSE /\ pc' = [pc EXCEPT ![r] = "checked"]
             /\ state' = [state EXCEPT !.data[r] = data]

\* create_cita from db.add to db.commit: the row is stored as Confirmada and
\* the request is over
CreateCitaCommit(r) ==
    /\ pc[r] = "checked"
    /\ LET data == state.data[r]
           cita == [podologo_id |-> data.podologo_id, fecha_cita |-> data.fecha_cita, hora_inicio |-> data.hora_inicio, hora_fin |-> data.hora_fin, status |-> "Confirmada", deleted_at |-> FALSE]
       IN  state' = [state EXCEPT !.citas = Append(@, cita), !.data[r] = << >>]
    /\ pc' = [pc EXCEPT ![r] = "201"]

\* update_cita on a row that is not deleted: every field of the request that
\* is set is written (a field left unset keeps its value, which is the case
\* data.field = old value); a deleted or unknown row answers 404 and changes
\* nothing
UpdateCita(cita_id) ==
    /\ cita_id \in 1..Len(state.citas)
    /\ ~state.citas[cita_id].deleted_at
    /\ \E data \in CitaData :
        state' = [state EXCEPT !.citas[cita_id].podologo_id = data.podologo_id, !.citas[cita_id].fecha_cita = data.fecha_cita, !.citas[cita_id].hora_inicio = data.hora_inicio, !.citas[cita_id].hora_fin = data.hora_fin]
    /\ UNCHANGED pc

\* update_cita_status on a row that is not deleted
UpdateCitaStatus(cita_id) ==
    /\ cita_id \in 1..Len(state.citas)
    /\ ~state.citas[cita_id].deleted_at
    /\ \E status \in CitaStatuses : state' = [state EXCEPT !.citas[cita_id].status = status]
    /\ UNCHANGED pc

\* cancel_cita on a row that is not deleted
CancelCita(cita_id) ==
    /\ cita_id \in 1..Len(state.citas)
    /\ ~state.citas[cita_id].deleted_at
    /\ state' = [state EXCEPT !.citas[cita_id].status = "Cancelada", !.citas[cita_id].deleted_at = TRUE]
    /\ UNCHANGED pc

NextCitas ==
    \/ \E r \in CitaRequests : CreateCitaQuery(r) \/ CreateCitaCommit(r)
    \/ \E cita_id \in CitaRequests : UpdateCita(cita_id) \/ UpdateCitaStatus(cita_id) \/ CancelCita(cita_id)

SpecCitas == InitCitas /\ [][NextCitas]_vars

-----------------------------------------------------------------------------
(* Properties *)

FixedRoles == {"Admin", "Podologo", "Recepcion"}

Visited(s, name) == InSeq(name, s.node_path)

\* check_permissions returned a denial because a requested table is outside
\* the role's allowed set (intent and _tables do not change after the Gate).
GateDenied(s) == Visited(s, "check_permissions") /\ RoleIsValid(s.user_role) /\ DeniedTables(s.entities_extracted.tables, AllowedTables(s.user_role, s.intent \in MutationIntents)) # << >>

ExecutionFailed(s) == s.execution_result.set /\ ~s.execution_result.success

ZeroRows(s) == s.execution_result.set /\ s.execution_result.success /\ s.execution_result.row_count = 0

HasText(msg) == msg # NoMsg /\ msg # EmptyText

\* The raw error texts of the store do not appear in the message.
HidesStoreText(msg) == \A m \in StoreErrors \cup {"Consulta no permitida"} : m # "" => ~InSeq(m, msg.args)

\* C1: once check_permissions has denied a request for a table outside the
\* role's allowed set, the rest of the run builds no query: no synthesis call
\* is made, sql_query stays unset, the store is not queried and retry_count
\* stays 0.
C1_DenialBuildsNoQuery == GateDenied(state) => state.io_synth = 0 /\ ~state.sql_query.set /\ state.io_store = 0 /\ state.retry_count = 0

\* C2: a run with max_retries = 2 whose executions all fail ends only after 3
\* executions and 3 synthesis calls (the first and 2 re-syntheses), with
\* retry_count = 2, error kind SQL_ERROR and the rephrase message as the user
\* message and the response.
C2_TwoResynthesesThenTerminal == (pc = "END" /\ state.max_retries = 2 /\ ExecutionFailed(state)) => state.io_store = 3 /\ state.io_synth = 3 /\ state.retry_count = 2 /\ state.error_type = "SQL_ERROR" /\ state.error_user_message = RephraseMessage /\ state.response_text = RephraseMessage

\* C3: retry_count never exceeds max_retries; it changes only in execute_sql,
\* by exactly +1, on an execution failure met with retry_count < max_retries;
\* an execution failure met with retry_count = max_retries leaves it unchanged
\* and sets SQL_ERROR with the rephrase user message.
C3_RetryCountBounded ==
    /\ [](state.retry_count <= state.max_retries)
    /\ [][state'.retry_count # state.retry_count => (pc = "sql_exec" /\ state'.retry_count = state.retry_count + 1 /\ state.retry_count < state.max_retries /\ ExecutionFailed(state') /\ state'.io_store = state.io_store + 1)]_vars
    /\ [][(pc = "sql_exec" /\ state'.io_store = state.io_store + 1 /\ ExecutionFailed(state') /\ state.retry_count = state.max_retries) => (state'.retry_count = state.retry_count /\ state'.error_type = "SQL_ERROR" /\ state'.error_user_message = RephraseMessage)]_vars

\* C3 witness: an execution failure has consumed one retry of a budget of 2.
C3_Witness == pc = "llm_response" /\ ExecutionFailed(state) /\ state.retry_count = 1 /\ state.max_retries = 2

\* C4: for a role outside {Admin, Podologo, Recepcion}, whatever the intent and
\* the requested tables (the empty list included), check_permissions returns a
\* denial (PERMISSION_DENIED with the invalid-role message) and the error kind
\* is never NONE once the Gate has been entered, and get_allowed_tables_for_role / can_access_table
\* grant the role no table, for read or for write.
C4_UnknownRoleDenied ==
    state.user_role \notin FixedRoles =>
        /\ \A write \in BOOLEAN : get_allowed_tables_for_role(state.user_role, write) = {} /\ \A table \in AllTables : ~can_access_table(state.user_role, table, write)
        /\ pc \notin {"route_by_origin", "classify_intent", "check_permissions"} => state.error_type # "NONE"
        /\ pc = "combine_context" => state.error_type = "PERMISSION_DENIED" /\ state.error_user_message = Text("Tu cuenta no tiene un rol valido configurado.")

\* C4 witness: an unlisted role that requested no table at all left the Gate denied.
C4_Witness == pc = "combine_context" /\ state.user_role = "Invitado" /\ state.entities_extracted.tables = << >> /\ state.error_type = "PERMISSION_DENIED"

\* C5: every sql_query stored by generate_sql holds no mutating keyword,
\* names tables of a single schema, and has is_mutation = FALSE.
C5_StoredQueryIsReadOnly == state.sql_query.set => ~HasMutatingKeyword(state.sql_query.query) /\ Cardinality(SchemasOf(state.sql_query.query)) <= 1 /\ ~state.sql_query.is_mutation

\* C6: no stage lets an exception escape, and a run that ends has a non-empty
\* response_text.
C6_EveryRunEndsWithResponse == pc # "raised" /\ state.exc = "" /\ (pc = "END" => HasText(state.response_text))

\* C7: a run that ends with an error kind other than NONE holds both an
\* internal diagnostic and a user-facing message, and neither the user message
\* nor response_text shows the store's raw error text.
C7_TerminalErrorHasBothMessages == (pc = "END" /\ state.error_type # "NONE") => HasText(state.error_internal_message) /\ HasText(state.error_user_message) /\ HidesStoreText(state.error_user_message) /\ HidesStoreText(state.response_text)

\* C8: for a mutation intent and any role, no sql_query is stored, no synthesis
\* call and no store query is made, generate_sql sets the fixed read-only
\* message as the user message, and the final response_text is that message.
C8_MutationRejected ==
    state.intent \in MutationIntents =>
        /\ ~state.sql_query.set /\ state.io_synth = 0 /\ state.io_store = 0
        /\ Visited(state, "generate_sql") => state.error_type # "NONE" /\ state.error_user_message = ReadOnlyMessage
        /\ pc = "END" => state.response_text = ReadOnlyMessage

\* C8 witness: an Admin's update of a table Admin may write ended with the read-only message.
C8_Witness == pc = "END" /\ state.intent = "mutation_update" /\ state.user_role = "Admin" /\ state.entities_extracted.tables = <<"clinic.pacientes">> /\ state.response_text = ReadOnlyMessage /\ ~state.sql_query.set

\* The ways the classification call fails into the except branch: the call
\* raises, or its output is not a JSON object, lacks intent or confidence,
\* names an intent outside the vocabulary, or carries a null field.
ClassificationFailures == {"service_error", "not_a_dict", "missing_intent", "unknown_intent", "missing_confidence", "null_values", "null_entities"}

\* C9: a failed classification call leaves intent = clarification, confidence
\* 0.3 and an internal-only error (INTERNAL, internal message, no user
\* message), and the run is not aborted: no later stage raises.
C9_ClassificationFailureDegrades ==
    state.cls \in ClassificationFailures =>
        /\ pc = "check_permissions" => state.intent = "clarification" /\ state.intent_confidence = 30 /\ state.error_type = "INTERNAL" /\ HasText(state.error_internal_message) /\ state.error_user_message = NoMsg
        /\ pc # "raised"

\* C10: after a successful execution with 0 rows, fuzzy recovery has run, the
\* error kind is NO_RESULTS, at most 3 suggestions are stored, and the final
\* response_text lists exactly the stored suggestions when there are any and is
\* the no-match message otherwise.
C10_ZeroRowsRecovery ==
    ZeroRows(state) =>
        /\ state.io_fuzzy = 1 /\ state.error_type = "NO_RESULTS" /\ Len(state.fuzzy_suggestions) <= 3
        /\ pc = "END" => state.response_text = (IF state.fuzzy_suggestions # << >> THEN Msg("No encontre resultados exactos. Quizas quisiste decir", << >>, state.fuzzy_suggestions) ELSE Text("No encontre informacion que coincida. Verifica que los datos esten escritos correctamente."))

\* C10 witness: a run ended after 0 rows with three suggestions named in the response.
C10_Witness == pc = "END" /\ ZeroRows(state) /\ Len(state.fuzzy_suggestions) = 3 /\ state.response_text.vals = state.fuzzy_suggestions

\* Intents that ask the store for data.
QueryIntents == {"query_read", "query_aggregate"}

\* C11: a run with a query intent and no error whose execution succeeded with
\* 1 to 5 rows ends with a non-empty response_text and a response_data
\* envelope whose row_count is the execution result's row_count.
C11_FewRowsEnvelope ==
    (pc = "END" /\ state.intent \in QueryIntents /\ state.error_type = "NONE" /\ state.execution_result.set /\ state.execution_result.success /\ state.execution_result.row_count \in 1..5) =>
        HasText(state.response_text) /\ state.response_data.set /\ state.response_data.row_count = state.execution_result.row_count

\* C11 witness: two patient rows were formatted directly and put in the envelope.
C11_Witness == pc = "END" /\ state.intent = "query_read" /\ state.error_type = "NONE" /\ state.execution_result.success /\ state.execution_result.row_count = 2 /\ InSeq("nombres", state.execution_result.columns) /\ state.response_data.row_count = 2 /\ state.io_compose = 0

SearchFunctions == {"fuzzy_search_patient", "fuzzy_search_podologo", "fuzzy_search_field"}

\* The similarities of the matches never increase along the list.
OrderedBySimilarity(matches) == \A i \in 1..Len(matches), j \in 1..Len(matches) : i < j => matches[i].similitud >= matches[j].similitud

FastGreeting(s) == _quick_classify(s.user_query) = Quick("greeting", 95)

\* C13: in a run whose input the fast path classifies as a greeting, for any
\* role: classify_intent leaves intent = greeting, confidence 0.95 and empty
\* entities without a classification call; no synthesis call is made, no
\* sql_query is stored and the store is not queried; and the run ends with
\* the reply of the greeting helper.
C13_GreetingFastPath ==
    FastGreeting(state) =>
        /\ state.io_classify = 0 /\ state.io_synth = 0 /\ state.io_store = 0 /\ ~state.sql_query.set /\ ~state.execution_result.set
        /\ pc = "check_permissions" => state.intent = "greeting" /\ state.intent_confidence = 95 /\ state.entities_extracted = EmptyDict
        /\ pc \notin {"route_by_origin", "classify_intent"} => state.intent = "greeting" /\ state.intent_confidence = 95
        /\ pc = "END" => state.io_compose = 1 /\ state.response_text \in {_get_greeting_response(out) : out \in ComposeOutcomes}

\* C13 witness: "Hola" from a role outside the fixed set ended with the service's greeting.
C13_Witness == pc = "END" /\ state.user_query.text = "Hola" /\ state.user_role = "Invitado" /\ state.intent = "greeting" /\ state.response_text = Text("<saludo del modelo>") /\ Visited(state, "generate_sql")

\* The fast path classifies the run's input as a count question.
FastAggregate(s) == _quick_classify(s.user_query) = Quick("query_aggregate", 85)

\* The result is one row of one column whose name contains count, total or cantidad.
SingleCount(result) == result.set /\ result.success /\ result.row_count = 1 /\ result.columns \in {<<"total_pacientes">>, <<"total_en_curso">>, <<"count">>}

\* C14: in a run of a role of the fixed set whose input the fast path
\* classifies as a count question: the intent is query_aggregate with
\* confidence 0.85 and no classification call; generate_sql makes one
\* synthesis call and execute_sql sends the stored query to the store; and
\* when the result is a single count the run ends with the single-value
\* template holding the column's value, not the number of rows.
C14_CountQuestion ==
    (FastAggregate(state) /\ state.user_role \in FixedRoles) =>
        /\ state.io_classify = 0
        /\ pc \notin {"route_by_origin", "classify_intent"} => state.intent = "query_aggregate" /\ state.intent_confidence = 85
        /\ Visited(state, "generate_sql") => state.io_synth = 1
        /\ (Visited(state, "execute_sql") /\ state.sql_query.set) => state.io_store = 1 /\ state.execution_result.set
        /\ (pc = "END" /\ SingleCount(state.execution_result)) => state.response_text \in {Msg("Total de pacientes", << >>, <<state.execution_result.value>>), Msg("Resultado", << >>, <<state.execution_result.value>>)}

\* C14 witness: "Cuantos pacientes hay" ended with "Total de pacientes: 42" from one row.
C14_Witness == pc = "END" /\ state.user_query.text = "Cuantos pacientes hay" /\ state.execution_result.columns = <<"total_pacientes">> /\ state.execution_result.row_count = 1 /\ state.response_text = Msg("Total de pacientes", << >>, <<42>>)

\* The classification stage has returned.
Classified == pc \notin {"route_by_origin", "classify_intent"}

\* The state holds this fast-path result: the pair, empty entities as left
\* by classify_intent (the Gate may add to them later), no service call.
FastResult(s, intent, confidence) == s.intent = intent /\ s.intent_confidence = confidence /\ s.io_classify = 0 /\ s.entities_extracted.vals = << >> /\ s.entities_extracted.ents = "unset" /\ s.entities_extracted.tables = << >>

\* C15: the fast path applies its rules in the order greeting prefix (on a
\* short input), out-of-scope keyword, aggregate trigger, read trigger; the
\* first rule that matches decides (intent, confidence) = (greeting, 0.95),
\* (out_of_scope, 0.9), (query_aggregate, 0.85), (query_read, 0.8) with empty
\* entities, whatever later rules match and whatever the role; an input no
\* rule matches goes to the classification service.
C15_FastPathRuleOrder ==
    LET q == state.user_query
        first == q.greeting /\ q.short
    IN  Classified =>
            /\ first => FastResult(state, "greeting", 95)
            /\ (~first /\ q.out_of_scope) => FastResult(state, "out_of_scope", 90)
            /\ (~first /\ ~q.out_of_scope /\ q.aggregate) => FastResult(state, "query_aggregate", 85)
            /\ (~first /\ ~q.out_of_scope /\ ~q.aggregate /\ q.read) => FastResult(state, "query_read", 80)
            /\ (~first /\ ~q.out_of_scope /\ ~q.aggregate /\ ~q.read) => state.io_classify = 1

\* C15 witness: an input with an out-of-scope keyword and an aggregate
\* trigger was classified out of scope.
C15_Witness == pc = "check_permissions" /\ state.user_query.text = "Cuantos chistes hay" /\ state.user_query.aggregate /\ state.intent = "out_of_scope" /\ state.intent_confidence = 90 /\ state.user_role = "Podologo"

\* C16: the codes stored by the registrations are pairwise distinct and
\* differ from every code stored before them, for any number of
\* registrations (past counter 99999 included) and any interleaving of their
\* reads and stores.
C16_CodesDistinct ==
    /\ \A i \in 1..Len(state.stored), j \in 1..Len(state.stored) : i # j => state.stored[i] # state.stored[j]
    /\ \A i \in 1..Len(state.stored) : IntOf(state.stored[i]) > state.base

\* A row that takes part in the agenda: not deleted, neither cancelled nor
\* missed
CitaActiva(c) == ~c.deleted_at /\ c.status \notin {"Cancelada", "No Asistio"}

\* C17: no two active citas of the same podologo on the same date have
\* overlapping time intervals (intervals with hora_inicio < hora_fin),
\* whatever calls were made.
C17_NoOverlappingCitas ==
    \A i \in 1..Len(state.citas), j \in 1..Len(state.citas) :
        LET a == state.citas[i]
            b == state.citas[j]
        IN  (i # j /\ CitaActiva(a) /\ CitaActiva(b) /\ a.podologo_id = b.podologo_id /\ a.fecha_cita = b.fecha_cita /\ a.hora_inicio < a.hora_fin /\ b.hora_inicio < b.hora_fin)
                => ~(a.hora_inicio < b.hora_fin /\ b.hora_inicio < a.hora_fin)

\* Position of a status on the documented path
LifecycleRank(status) == CASE status = "Pendiente" -> 1 [] status = "Confirmada" -> 2 [] status = "En Sala" -> 3 [] status = "Realizada" -> 4 [] OTHER -> 5

\* C18: in every step the status of a stored cita stays, advances along
\* Pendiente, Confirmada, En Sala, Realizada, or becomes Cancelada or No
\* Asistio; a status Cancelada or No Asistio never changes.
C18_StatusLifecycle ==
    [][\A i \in 1..Len(state.citas) :
        LET old == state.citas[i].status
            new == state'.citas[i].status
        IN  \/ new = old
            \/ LifecycleRank(old) < LifecycleRank(new)]_vars

\* The trace of a full run: the route entry, then the five stage names
StagePath(s) == <<"route_by_origin_" \o s.origin, "classify_intent", "check_permissions", "generate_sql", "execute_sql", "generate_response">>

\* How many entries the trace holds when the run is about to enter `node`
\* (combine_context is no stage of the five and adds none)
StagesDone(node) ==
    CASE node = "route_by_origin" -> 0
      [] node = "classify_intent" -> 1
      [] node = "check_permissions" -> 2
      [] node \in {"combine_context", "nl_to_sql"} -> 3
      [] node = "sql_exec" -> 4
      [] node = "llm_response" -> 5
      [] OTHER -> 6

\* C19: every stage that has returned has appended its own name to node_path
\* exactly once, on whatever return path: at each point of a run node_path is
\* the route entry followed by the names of the stages run so far, and after
\* a full run it is the route entry followed by the five stage names in order.
C19_NodePathComplete == pc # "raised" => state.node_path = SubSeq(StagePath(state), 1, StagesDone(pc))

\* C20: after generate_sql has run for a read or aggregate intent whose
\* entities hold no extracted table, no synthesis call was made and no
\* sql_query is stored.
C20_NoResourcesNoSynthesis ==
    (pc \in {"sql_exec", "llm_response", "END"} /\ state.intent \in QueryIntents /\ state.entities_extracted.tables = << >>)
        => state.io_synth = 0 /\ ~state.sql_query.set

\* C20 as the code has it: after generate_sql has run for a read or aggregate
\* intent whose entities hold no extracted table, exactly one synthesis call
\* was made, and either the sql_query parsed from its reply is stored or the
\* call or the parsing failed and error_type is SQL_ERROR with no sql_query.
C20_NoResourcesStillSynthesizes ==
    (pc \in {"sql_exec", "llm_response", "END"} /\ state.intent \in QueryIntents /\ state.entities_extracted.tables = << >>)
        => /\ state.io_synth = 1
           /\ state.sql_query.set \/ state.error_type = "SQL_ERROR"

\* C20 witness: a count question classified on the fast path (empty entities)
\* left generate_sql with a stored query after one synthesis call.
C20_Witness == pc = "sql_exec" /\ state.intent = "query_aggregate" /\ state.io_classify = 0 /\ state.entities_extracted = EmptyDict /\ state.io_synth = 1 /\ state.sql_query.set /\ state.error_type = "NONE"

\* C21: at the end of a run whose execution succeeded with 0 rows or with
\* more than 5 rows, the Composer has called the summarisation service once,
\* response_text is the service's summary or, when the call failed, the
\* generic tabular template, and response_data is set.
C21_SummaryForZeroOrManyRows ==
    LET result == state.execution_result
    IN  (pc = "END" /\ result.set /\ result.success /\ (result.row_count = 0 \/ result.row_count > 5))
            => /\ state.io_compose = 1
               /\ state.response_text \in {_format_with_llm(result, out) : out \in ComposeOutcomes}
               /\ state.response_data.set

\* The replies the conversational branch of an intent can produce
ConversationalReplies(intent) ==
    CASE intent = "greeting" -> {_get_greeting_response(out) : out \in ComposeOutcomes}
      [] intent = "out_of_scope" -> {_get_out_of_scope_response(out) : out \in ComposeOutcomes}
      [] intent = "clarification" -> {_get_clarification_response(out) : out \in ComposeOutcomes}
      [] OTHER -> {}

\* C22: at the end of a run, an intent of greeting, out_of_scope or
\* clarification has a conversational reply and no response_data, whatever
\* the error kind; any other intent with an error kind other than NONE has the
\* error message, no response_data and no reply-writing call; response_data is
\* set only when the intent is none of the three and the error kind is NONE.
C22_ComposerPriority ==
    pc = "END" =>
        /\ state.intent \in {"greeting", "out_of_scope", "clarification"}
              => state.response_text \in ConversationalReplies(state.intent) /\ state.io_compose = 1 /\ ~state.response_data.set
        /\ (state.intent \notin {"greeting", "out_of_scope", "clarification"} /\ state.error_type # "NONE")
              => state.response_text = _format_error_response(state) /\ state.io_compose = 0 /\ ~state.response_data.set
        /\ state.response_data.set
              => state.intent \notin {"greeting", "out_of_scope", "clarification"} /\ state.error_type = "NONE" /\ state.execution_result.success

\* C22 witness: a greeting by an unlisted role ended with the error kind of
\* the Gate set and the service's greeting as reply.
C22_Witness == pc = "END" /\ state.intent = "greeting" /\ state.error_type = "PERMISSION_DENIED" /\ state.user_role = "Invitado" /\ state.response_text = Text("<saludo del modelo>") /\ state.io_compose = 1

\* The text holds a JSON value that one of the classifier's three parsers
\* reaches: the whole text, the span from the first to the last brace, or the
\* text from a line that starts with a brace
ClassifierAccepts(text) == text.body = "json" /\ (~text.braceNoise \/ ~text.post)

\* The text holds a JSON value that one of the synthesizer's two JSON parsers
\* reaches, or a SELECT statement
SynthesizerAccepts(text) == (text.body = "json" /\ ~text.braceNoise) \/ (text.body # "none" /\ InSeq("SELECT", text.obj.sql))

\* C23: neither parser raises, and for a text that none of its parsers
\* accepts the classifier's parser returns intent clarification with
\* confidence 0.5 and the synthesizer's parser returns a value as well.
C23_ParsersNeverRaise ==
    pc = "done" =>
        /\ ~state.raised
        /\ (state.parser = "classification" /\ ~ClassifierAccepts(state.text))
              => state.result.intent = "clarification" /\ state.result.confidence = 50

\* C23 as the code has it: the classifier's parser never raises, returns the
\* JSON value of a text one of its three parsers accepts and intent
\* clarification with confidence 0.5 for any other text; the synthesizer's
\* parser returns the JSON value or the SELECT statement of a text one of its
\* parsers accepts, and raises for any other text.
C23_ClassifierDefaultSynthesizerRaises ==
    pc = "done" =>
        /\ state.parser = "classification" =>
              /\ ~state.raised
              /\ ClassifierAccepts(state.text) => state.result = state.text.obj
              /\ ~ClassifierAccepts(state.text) => state.result.intent = "clarification" /\ state.result.confidence = 50
        /\ state.parser = "sql" =>
              /\ state.raised <=> ~SynthesizerAccepts(state.text)
              /\ (state.text.body = "json" /\ ~state.text.braceNoise) => state.result = state.text.obj
              /\ (SynthesizerAccepts(state.text) /\ ~(state.text.body = "json" /\ ~state.text.braceNoise)) => state.result.hasSql /\ state.result.sql[1] = "SELECT"

\* C23 witness: a classification reply whose JSON is reached only by the line
\* scan (text before it, a brace fragment on an earlier line) was parsed to
\* its value.
C23_Witness == pc = "done" /\ state.parser = "classification" /\ state.text.body = "json" /\ state.text.pre /\ state.text.braceNoise /\ ~state.text.post /\ state.result = state.text.obj /\ state.result.intent = "query_read"

\* The requested tables
Requested(s) == {s.entities_extracted.tables[i] : i \in 1..Len(s.entities_extracted.tables)}

\* The set of the role for the operation kind of the intent
PermittedFor(s) == IF s.intent \in {"mutation_create", "mutation_update", "mutation_delete"} THEN WRITE_PERMISSIONS[s.user_role] ELSE READ_PERMISSIONS[s.user_role]

\* C24: when check_permissions has returned for a known role, the request is
\* denied if and only if some requested table is outside the role's set for
\* the operation kind (write set for mutation intents, read set otherwise);
\* the denial names exactly the requested tables outside that set, and a
\* denied request gets no grant mark (restricted fields, confirmation) even
\* when some of its tables are allowed.
C24_DeniedIffOutsideAllowedSet ==
    (pc = "combine_context" /\ state.user_role \in FixedRoles) =>
        LET outside == Requested(state) \ PermittedFor(state)
            named == {state.error_internal_message.args[i] : i \in 1..Len(state.error_internal_message.args)}
        IN  /\ state.error_type = "PERMISSION_DENIED" <=> outside # {}
            /\ outside # {} =>
                  /\ state.error_internal_message.id = "Acceso denegado a"
                  /\ named = outside
                  /\ state.entities_extracted.restricted = << >>
                  /\ ~state.entities_extracted.confirm

\* C24 witness: Recepcion asked to read patients and payments and was denied
\* for payments alone.
C24_Witness == pc = "combine_context" /\ state.user_role = "Recepcion" /\ state.intent = "query_read" /\ state.entities_extracted.tables = <<"clinic.pacientes", "finance.pagos">> /\ state.error_type = "PERMISSION_DENIED" /\ state.error_internal_message.args = <<"finance.pagos">>

\* What the Classifier writes
ClassifierOutput(s) == <<s.intent, s.intent_confidence, s.entities_extracted.vals, s.entities_extracted.ents, s.entities_extracted.entsList, s.entities_extracted.tables>>

\* A state without the fields the Composer writes
WithoutResponse(s) == [s EXCEPT !.response_text = NoMsg, !.response_data = NoData, !.node_path = << >>, !.io_compose = 0]

\* An error kind or a user message that is set stays as it is from s to t
KeepsError(s, t) ==
    /\ s.error_type # "NONE" => t.error_type = s.error_type
    /\ s.error_user_message # NoMsg => t.error_user_message = s.error_user_message

\* C25: every step of a stage leaves the outputs of the earlier stages as
\* they were: check_permissions keeps what the Classifier wrote; generate_sql
\* and execute_sql keep intent, confidence and entities and keep an error kind
\* and a user message that are already set; execute_sql keeps sql_query;
\* generate_response changes only response_text, response_data and the trace.
C25_StagesKeepEarlierOutputs ==
    [][/\ pc = "check_permissions" => ClassifierOutput(state') = ClassifierOutput(state)
       /\ pc \in {"nl_to_sql", "sql_exec"} =>
             /\ ClassifierOutput(state') = ClassifierOutput(state)
             /\ state'.entities_extracted = state.entities_extracted
             /\ KeepsError(state, state')
       /\ pc = "sql_exec" => state'.sql_query = state.sql_query
       /\ pc = "llm_response" => WithoutResponse(state') = WithoutResponse(state)]_vars

\* C26: execution_result changes only in a step of execute_sql that hands
\* the query to the executor, and a call of execute_sql that finds no
\* sql_query, or an error kind other than NONE, does not call the executor,
\* leaves execution_result unset and leaves retry_count as it was.
C26_ResultOnlyFromExecution ==
    [][/\ state'.execution_result # state.execution_result => pc = "sql_exec" /\ state'.io_store = state.io_store + 1
       /\ (pc = "sql_exec" /\ (~state.sql_query.set \/ state.error_type # "NONE")) =>
             /\ state'.io_store = state.io_store
             /\ ~state'.execution_result.set
             /\ state'.retry_count = state.retry_count]_vars

\* C26 witness: execute_sql was entered with a query stored after a denial
\* and returned without querying the store.
C26_Witness == pc = "llm_response" /\ state.sql_query.set /\ state.error_type = "PERMISSION_DENIED" /\ state.io_synth = 1 /\ state.io_store = 0 /\ ~state.execution_result.set /\ state.retry_count = 0 /\ Visited(state, "execute_sql")

C28_AdminReadsEveryLexiconTable ==
    (pc \notin {"route_by_origin", "classify_intent", "check_permissions", "raised"} /\ state.user_role = "Admin" /\ state.intent \in QueryIntents
        /\ \A i \in 1..Len(state.entities_extracted.entsList) : state.entities_extracted.entsList[i] \in DOMAIN ENTITY_TO_TABLE)
        => /\ \A i \in 1..Len(state.entities_extracted.tables) : state.entities_extracted.tables[i] \in READ_PERMISSIONS.Admin
           /\ pc = "combine_context" => state.error_type # "PERMISSION_DENIED"

\* C29: when execute_sql is invoked after a failed execution that counted a
\* retry and a generate_sql that stored a query, it hands that query to the
\* executor instead of skipping.
C29_RetryRunsNewQuery ==
    [][(pc = "sql_exec" /\ state.retry_count > 0 /\ state.sql_query.set /\ state.error_internal_message.id # "EXC")
          => state'.io_store = state.io_store + 1]_vars

\* C30: after check_permissions has denied a read or aggregate request, the
\* error kind stays PERMISSION_DENIED and the user message stays the Gate's
\* denial up to the end of the run, and the final response_text is that
\* message.
C30_DenialSurvivesSynthesis ==
    (GateDenied(state) /\ state.intent \in QueryIntents) =>
        /\ state.error_type = "PERMISSION_DENIED"
        /\ state.error_user_message = Text("No tienes acceso a ver esta informacion con tu rol actual.")
        /\ pc = "END" => state.response_text = Text("No tienes acceso a ver esta informacion con tu rol actual.")

====
